---- MODULE Spec2Model ----
(***************************************************************************)
(* Model of ProjectManager (packages/cli/src/project/projectManager.ts).   *)
(*                                                                         *)
(* The disk of one project root is shared by the orchestrators (instances  *)
(* of ProjectManager) working on it.  Every `await` of the source is one   *)
(* atomic step: the I/O it waits for, followed by the synchronous code up  *)
(* to the next `await`.  Every I/O step may fail; a failure is a rejected  *)
(* promise that nothing in the class catches.                              *)
(*                                                                         *)
(* JSON files are modelled by the value they hold (writeJSON / readJSON    *)
(* of strings, arrays, booleans and objects), an absent file by <<>> and a *)
(* present one by <<content>>.                                             *)
(***************************************************************************)
EXTENDS Naturals, Sequences, FiniteSets, TLC

VARIABLES
    root,        \* the root path given to the constructor, as path segments
    rootExists,  \* disk: the root directory exists
    modulesDir,  \* disk: {root}/modules exists
    moduleDirs,  \* disk: names of the module directories under {root}/modules
    tsconfig,    \* disk: {root}/tsconfig.json
    manifest,    \* disk: {root}/package.json
    configDoc,   \* disk: {root}/replikit.config.ts
    lerna,       \* disk: {root}/lerna.json
    extRepos,    \* disk: {root}/external/{path}
    cmModules,   \* per orchestrator: the ConfigManager's declared modules
    pm,          \* per orchestrator: this.pm
    configPath,  \* per orchestrator: this.configPath
    pc,          \* per orchestrator: the await the running call is waiting at
    call,        \* per orchestrator: the running call and its progress
    local,       \* per orchestrator: local variables of the running call
    last         \* per orchestrator: what is remembered of the last call that ended

diskVars == <<rootExists, modulesDir, moduleDirs, tsconfig, manifest, configDoc,
              lerna, extRepos>>
memVars == <<cmModules, pm, configPath>>
ctlVars == <<pc, call, local, last>>
vars == <<root, diskVars, memVars, ctlVars>>

-----------------------------------------------------------------------------
(* Bounds and input universes *)

MaxBatch == 2

Procs == {"o1", "o2"}
Roots == {<<"tmp", "proj">>}
PMTypes == {"npm", "yarn"}
LocalNames == {"a"}
PkgNames == {"@lib/m"}

None == <<>>
Some(v) == <<v>>
Get(o) == o[1]

RECURSIVE SeqsUpTo(_, _)
SeqsUpTo(S, n) ==
    IF n = 0 THEN {<<>>}
    ELSE LET shorter == SeqsUpTo(S, n - 1)
         IN shorter \cup {Append(s, e) : s \in {t \in shorter : Len(t) = n - 1}, e \in S}

Batches == SeqsUpTo(PkgNames, MaxBatch)

Range(s) == {s[i] : i \in 1..Len(s)}

(* A linked repository: its package.json (absent, or declaring a name) and the
   listing of its modules directory. *)
Repo(n, dirs) == Some([manifest |-> Some([name |-> n]), modules |-> Some(dirs)])
RepoNoManifest == Some([manifest |-> None, modules |-> None])

(* The repositories the git collaborator links: two that declare the same name,
   one that declares the project's own name, one without a package.json; no
   repository is linked at path "v". *)
ExtPaths == {"x", "y", "z", "w", "v"}
ExtLayout ==
    [x |-> Repo("lib", <<"n", "m">>), y |-> Repo("lib", <<>>), z |-> Repo("proj", <<"a">>),
     w |-> RepoNoManifest, v |-> None]

-----------------------------------------------------------------------------
(* Pure helpers of the source *)

\* path.basename(root)
Basename(r) == IF Len(r) = 0 THEN "" ELSE r[Len(r)]

\* this.name
Name == Basename(root)

\* resolve(this.root, "replikit.config.ts")
ConfigFilePath == Append(root, "replikit.config.ts")

\* the two keys `@${name}/*` and `@${name}/*/typings`
SrcKey(n) == "@" \o n \o "/*"
TypingsKey(n) == "@" \o n \o "/*/typings"
ScopeKeys(n) == {SrcKey(n), TypingsKey(n)}

\* an object literal with the two computed keys; a later equal key wins
TwoKeys(k1, v1, k2, v2) == [k \in {k1, k2} |-> IF k = k2 THEN v2 ELSE v1]

\* a variant of Spread in which a key of a keeps its value
SpreadKeepingFirst(a, b) ==
    [k \in DOMAIN a \cup DOMAIN b |-> IF k \in DOMAIN a THEN a[k] ELSE b[k]]

\* { ...a, ...b }
Spread(a, b) == [k \in DOMAIN a \cup DOMAIN b |-> IF k \in DOMAIN b THEN b[k] ELSE a[k]]

\* the tsconfig object literal of init()
InitPaths == TwoKeys(SrcKey(Name), <<"*/src">>, TypingsKey(Name), <<"*/typings">>)

InitTsconfig ==
    [ compilerOptions |->
        [ target |-> "es2019", module |-> "commonjs", moduleResolution |-> "node",
          baseUrl |-> "modules", strict |-> TRUE, paths |-> InitPaths ],
      include |-> <<"replikit.config.ts", "modules/**/*.ts">> ]

\* the two entries addExternalRepo(path) writes for a repository named n
ExternalPaths(n, path) ==
    TwoKeys(SrcKey(n), <<"../external/" \o path \o "/modules/*/src">>,
            TypingsKey(n), <<"../external/" \o path \o "/modules/*/typings">>)

\* the assignment to tsconfig.compilerOptions.paths in addExternalRepo
MergeDestructive(ts, n, path) ==
    [ts EXCEPT !.compilerOptions.paths = ExternalPaths(n, path)]

\* a variant of MergePaths that writes a compilerOptions holding the paths alone
MergeResettingOptions(ts, n, path) ==
    [ts EXCEPT !.compilerOptions =
       [paths |-> Spread(@.paths, ExternalPaths(n, path))]]

MergePaths(ts, n, path) ==
    [ts EXCEPT !.compilerOptions.paths = Spread(@, ExternalPaths(n, path))]

-----------------------------------------------------------------------------
(* ConfigManager: the declared-module set *)

\* configManager.init()
CMInit == {}

\* configManager.checkModule(fullName)
CMCheckModule(mods, fullName) == fullName \in mods

\* configManager.addModule(fullName): inserts if absent
CMAddModule(mods, fullName) == mods \cup {fullName}

\* configManager.serialize(): one import line per declared module
CMSerialize(mods) == [imports |-> {"import " \o m : m \in mods}]

-----------------------------------------------------------------------------
(* PMController *)

\* createPMController(type, root)
PMCreate(t) == Some([type |-> t])

\* the manifest file written by pm.init(name, private) and pm.save()
PMSaved(ctl, n, private) ==
    [type |-> ctl.type, name |-> n, private |-> private,
     dependencies |-> {}, devDependencies |-> {}]

\* the manifest file after pm.install(names, dev)
PMInstalled(file, names, dev) ==
    IF dev THEN [file EXCEPT !.devDependencies = @ \cup Range(names)]
    ELSE [file EXCEPT !.dependencies = @ \cup Range(names)]

-----------------------------------------------------------------------------
(* ModuleManager *)

\* module.fullName
FullName(n) == "@" \o Name \o "/" \o n

\* new ModuleManager(this, name, this.pm.type)
Module(n, t) == [name |-> n, fullName |-> FullName(n), type |-> t]

-----------------------------------------------------------------------------
(* Calls: bookkeeping shared by all operations.  The action that begins a    *)
(* call runs it up to and including its first awaited step.                  *)

NoArg == [name |-> "", path |-> "", mods |-> <<>>, dev |-> FALSE]
NoLocal == [pkgName |-> "", ts |-> None]

\* no call is running
NoCall ==
    [op |-> "none", arg |-> NoArg, steps |-> <<>>, cfgWrites |-> 0, again |-> FALSE,
     prevWrites |-> 0]

\* nothing is remembered of the last call
NoLast ==
    [op |-> "none", status |-> "none", failedAt |-> "", path |-> "", name |-> "",
     mods |-> <<>>, ret |-> None, cfgWrites |-> 0, again |-> FALSE, prevWrites |-> 0]

\* A call that begins.  `again` tells that it is createModule(name) following a
\* createModule of the same name that returned, `prevWrites` how often that call
\* wrote the configuration document.
NewCall(p, op, arg) ==
    LET again == /\ op = "createModule"
                 /\ last[p].op = "createModule"
                 /\ last[p].status = "ok"
                 /\ last[p].name = arg.name
    IN [op |-> op, arg |-> arg, steps |-> <<>>, cfgWrites |-> 0, again |-> again,
        prevWrites |-> IF again THEN last[p].cfgWrites ELSE 0]

\* What the caller holds of a call that ended: the operation, its outcome (for
\* a rejection the step that rejected), its path argument and its result, for
\* createModule its name and configuration writes, and for addLocalModules its
\* list of modules and configuration writes.
Summary(c, status, at, ret, writes) ==
    LET base == [NoLast EXCEPT !.op = c.op, !.status = status, !.failedAt = at,
                               !.path = c.arg.path, !.ret = ret]
    IN IF c.op = "createModule"
       THEN [base EXCEPT !.name = c.arg.name, !.cfgWrites = c.cfgWrites + writes,
                         !.again = c.again, !.prevWrites = c.prevWrites]
       ELSE IF c.op = "addLocalModules"
       THEN [base EXCEPT !.mods = c.arg.mods, !.cfgWrites = c.cfgWrites + writes]
       ELSE base

\* The caller awaits a call before it issues the next one on the same orchestrator.
CanBegin(p) == pc[p] = "idle"

\* the awaited step `label` of call c resolved; the call goes on to await `next`
Step(p, c, label, next, loc, writes) ==
    /\ call' = [call EXCEPT ![p] =
                  [c EXCEPT !.steps = Append(@, label), !.cfgWrites = @ + writes]]
    /\ pc' = [pc EXCEPT ![p] = next]
    /\ local' = [local EXCEPT ![p] = loc]
    /\ last' = [last EXCEPT ![p] = NoLast]

\* call c ends: its promise settles
End(p, c, status, at, ret, writes) ==
    /\ last' = [last EXCEPT ![p] = Summary(c, status, at, ret, writes)]
    /\ call' = [call EXCEPT ![p] = NoCall]
    /\ pc' = [pc EXCEPT ![p] = "settled"]
    /\ local' = [local EXCEPT ![p] = NoLocal]

\* the awaited step resolved and the call returns
Return(p, c, ret, writes) == End(p, c, "ok", "", ret, writes)

\* the awaited step `at` rejected, or the synchronous code around it threw: the
\* async function rejects and no statement after the throw runs
Throw(p, c, at) == End(p, c, "failed", at, None, 0)

\* The caller's await of the settled call completes and the caller goes on.  Of
\* the call, a createModule that returned stays remembered until the next call.
Await(p) ==
    /\ pc[p] = "settled"
    /\ pc' = [pc EXCEPT ![p] = "idle"]
    /\ last' = [last EXCEPT ![p] =
                  IF @.op = "createModule" /\ @.status = "ok" THEN @ ELSE NoLast]
    /\ UNCHANGED <<root, diskVars, memVars, call, local>>

-----------------------------------------------------------------------------
(* The initial state: a root that is absent or an empty directory, and newly *)
(* constructed orchestrators for it.                                         *)

Init ==
    /\ root \in Roots
    /\ rootExists \in BOOLEAN
    /\ modulesDir = FALSE
    /\ moduleDirs = {}
    /\ tsconfig = None
    /\ manifest = None
    /\ configDoc = None
    /\ lerna = None
    /\ extRepos = [x \in ExtPaths |-> None]
    /\ cmModules = [p \in Procs |-> {}]
    /\ pm = [p \in Procs |-> None]
    /\ configPath = [p \in Procs |-> None]
    /\ pc = [p \in Procs |-> "idle"]
    /\ call = [p \in Procs |-> NoCall]
    /\ local = [p \in Procs |-> NoLocal]
    /\ last = [p \in Procs |-> NoLast]

-----------------------------------------------------------------------------
(* The git collaborator links repositories under {root}/external. *)

GitClone ==
    /\ \A x \in ExtPaths : extRepos[x] = None
    /\ extRepos' = ExtLayout
    /\ rootExists' = TRUE
    /\ UNCHANGED <<root, modulesDir, moduleDirs, tsconfig, manifest, configDoc, lerna,
                   memVars, ctlVars>>

-----------------------------------------------------------------------------
(* new ProjectManager(root): a new process starts with a new orchestrator *)

Restart(p) ==
    /\ pc[p] = "idle"
    /\ cmModules' = [cmModules EXCEPT ![p] = {}]
    /\ pm' = [pm EXCEPT ![p] = None]
    /\ configPath' = [configPath EXCEPT ![p] = None]
    /\ last' = [last EXCEPT ![p] = NoLast]
    /\ UNCHANGED <<root, diskVars, pc, call, local>>

-----------------------------------------------------------------------------
(* setPackageManager(type) *)

SetPackageManager(p, t) ==
    /\ pc[p] = "idle"
    /\ pm' = [pm EXCEPT ![p] = PMCreate(t)]
    /\ UNCHANGED <<root, diskVars, cmModules, configPath, ctlVars>>

-----------------------------------------------------------------------------
(* saveConfig(): writeFile(this.configPath, this.configManager.serialize()) *)

\* writeFile rejects an undefined path and a path in a missing directory
CanSaveConfig(p) == configPath[p] # None /\ rootExists

\* the document written, given the declared modules
SavedConfig(mods) == Some(CMSerialize(mods))

-----------------------------------------------------------------------------
(* init() *)

\* a variant of InitCall that keeps the modules declared before the call
InitCallKeepingModules(p) ==
    /\ CanBegin(p)
    /\ Step(p, NewCall(p, "init", NoArg), "init_pathExists",
            IF rootExists THEN "init_mkdir" ELSE "init_ensureDir", NoLocal, 0)
    /\ UNCHANGED <<root, diskVars, memVars>>

\* this.configManager.init(); await pathExists(this.root)
InitCall(p) ==
    /\ CanBegin(p)
    /\ cmModules' = [cmModules EXCEPT ![p] = CMInit]
    /\ Step(p, NewCall(p, "init", NoArg), "init_pathExists",
            IF rootExists THEN "init_mkdir" ELSE "init_ensureDir", NoLocal, 0)
    /\ UNCHANGED <<root, diskVars, pm, configPath>>

\* await ensureDir(this.root)
InitEnsureDir(p) ==
    /\ pc[p] = "init_ensureDir"
    /\ \/ /\ rootExists' = TRUE
          /\ Step(p, call[p], "init_ensureDir", "init_mkdir", local[p], 0)
       \/ /\ UNCHANGED rootExists
          /\ Throw(p, call[p], "init_ensureDir")
    /\ UNCHANGED <<root, modulesDir, moduleDirs, tsconfig, manifest, configDoc, lerna,
                   extRepos, memVars>>

\* a variant of InitMkdir that accepts an existing modules directory
InitMkdirRecursive(p) ==
    /\ pc[p] = "init_mkdir"
    /\ \/ /\ rootExists
          /\ modulesDir' = TRUE
          /\ Step(p, call[p], "init_mkdir", "init_writeTsconfig", local[p], 0)
       \/ /\ UNCHANGED modulesDir
          /\ Throw(p, call[p], "init_mkdir")
    /\ UNCHANGED <<root, rootExists, moduleDirs, tsconfig, manifest, configDoc, lerna,
                   extRepos, memVars>>

\* await mkdir(modulesPath): rejects when the directory exists
InitMkdir(p) ==
    /\ pc[p] = "init_mkdir"
    /\ \/ /\ rootExists /\ ~modulesDir
          /\ modulesDir' = TRUE
          /\ Step(p, call[p], "init_mkdir", "init_writeTsconfig", local[p], 0)
       \/ /\ UNCHANGED modulesDir
          /\ Throw(p, call[p], "init_mkdir")
    /\ UNCHANGED <<root, rootExists, moduleDirs, tsconfig, manifest, configDoc, lerna,
                   extRepos, memVars>>

\* a variant of InitWriteTsconfig in which the configuration document is written
\* before the package manifest
InitWriteTsconfigThenConfig(p) ==
    /\ pc[p] = "init_writeTsconfig"
    /\ \/ /\ tsconfig' = Some(InitTsconfig)
          /\ configPath' = [configPath EXCEPT ![p] = Some(ConfigFilePath)]
          /\ Step(p, call[p], "init_writeTsconfig", "init_saveConfig", local[p], 0)
       \/ /\ UNCHANGED <<tsconfig, configPath>>
          /\ Throw(p, call[p], "init_writeTsconfig")
    /\ UNCHANGED <<root, rootExists, modulesDir, moduleDirs, manifest, configDoc, lerna,
                   extRepos, cmModules, pm>>

\* await writeJSON(tsconfigPath, tsconfig); then this.pm.init(this.name, true),
\* which throws when this.pm is undefined or a manifest already exists
InitWriteTsconfig(p) ==
    /\ pc[p] = "init_writeTsconfig"
    /\ \/ /\ tsconfig' = Some(InitTsconfig)
          /\ IF pm[p] # None /\ manifest = None
             THEN Step(p, call[p], "init_writeTsconfig", "init_pmSave", local[p], 0)
             ELSE Throw(p, call[p], "init_pmInit")
       \/ /\ UNCHANGED tsconfig
          /\ Throw(p, call[p], "init_writeTsconfig")
    /\ UNCHANGED <<root, rootExists, modulesDir, moduleDirs, manifest, configDoc, lerna,
                   extRepos, memVars>>

\* a variant of InitPmSave that goes on to saveConfig when pm.save() rejects
InitPmSaveIgnoringFailure(p) ==
    /\ pc[p] = "init_pmSave"
    /\ \/ manifest' = Some(PMSaved(Get(pm[p]), Name, TRUE))
       \/ UNCHANGED manifest
    /\ configPath' = [configPath EXCEPT ![p] = Some(ConfigFilePath)]
    /\ Step(p, call[p], "init_pmSave", "init_saveConfig", local[p], 0)
    /\ UNCHANGED <<root, rootExists, modulesDir, moduleDirs, tsconfig, configDoc, lerna,
                   extRepos, cmModules, pm>>

\* await this.pm.save(); then this.configPath = resolve(this.root, "replikit.config.ts")
InitPmSave(p) ==
    /\ pc[p] = "init_pmSave"
    /\ \/ /\ manifest' = Some(PMSaved(Get(pm[p]), Name, TRUE))
          /\ configPath' = [configPath EXCEPT ![p] = Some(ConfigFilePath)]
          /\ Step(p, call[p], "init_pmSave", "init_saveConfig", local[p], 0)
       \/ /\ UNCHANGED <<manifest, configPath>>
          /\ Throw(p, call[p], "init_pmSave")
    /\ UNCHANGED <<root, rootExists, modulesDir, moduleDirs, tsconfig, configDoc, lerna,
                   extRepos, cmModules, pm>>

\* await this.saveConfig()
InitSaveConfig(p) ==
    /\ pc[p] = "init_saveConfig"
    /\ \/ /\ CanSaveConfig(p)
          /\ configDoc' = SavedConfig(cmModules[p])
          /\ Return(p, call[p], None, 1)
       \/ /\ UNCHANGED configDoc
          /\ Throw(p, call[p], "init_saveConfig")
    /\ UNCHANGED <<root, rootExists, modulesDir, moduleDirs, tsconfig, manifest, lerna,
                   extRepos, memVars>>

-----------------------------------------------------------------------------
(* pm.install(names, dev): the package manager records the names in the      *)
(* manifest on disk.                                                         *)

PMCanInstall == manifest # None

PMInstall(names, dev) == manifest' = Some(PMInstalled(Get(manifest), names, dev))

-----------------------------------------------------------------------------
(* addLerna() *)

\* a variant of LernaConfig that enables workspaces for every package manager
LernaConfigAlwaysWorkspaces(t) ==
    [version |-> "0.0.0", npmClient |-> t, useWorkspaces |-> TRUE]

\* lernaConfig
LernaConfig(t) ==
    IF t = "yarn"
    THEN [version |-> "0.0.0", npmClient |-> "yarn", useWorkspaces |-> TRUE]
    ELSE [version |-> "0.0.0", npmClient |-> "npm"]

\* a variant of AddLernaCall that goes on to write lerna.json when install rejects
AddLernaCallIgnoringFailure(p) ==
    /\ CanBegin(p)
    /\ pm[p] # None
    /\ LET c == NewCall(p, "addLerna", NoArg) IN
       \/ /\ PMCanInstall
          /\ PMInstall(<<"lerna">>, TRUE)
          /\ Step(p, c, "al_install", "al_write", NoLocal, 0)
       \/ /\ UNCHANGED manifest
          /\ Step(p, c, "al_install_rejected", "al_write", NoLocal, 0)
    /\ UNCHANGED <<root, rootExists, modulesDir, moduleDirs, tsconfig, configDoc, lerna,
                   extRepos, memVars>>

\* await this.pm.install(["lerna"], true), which throws when this.pm is undefined
AddLernaCall(p) ==
    /\ CanBegin(p)
    /\ LET c == NewCall(p, "addLerna", NoArg) IN
       \/ /\ pm[p] # None
          /\ PMCanInstall
          /\ PMInstall(<<"lerna">>, TRUE)
          /\ Step(p, c, "al_install", "al_write", NoLocal, 0)
       \/ /\ UNCHANGED manifest
          /\ Throw(p, c, "al_install")
    /\ UNCHANGED <<root, rootExists, modulesDir, moduleDirs, tsconfig, configDoc, lerna,
                   extRepos, memVars>>

\* await writeJSON(lernaConfigPath, lernaConfig)
AlWrite(p) ==
    /\ pc[p] = "al_write"
    /\ \/ /\ rootExists
          /\ lerna' = Some(LernaConfig(Get(pm[p]).type))
          /\ Return(p, call[p], None, 0)
       \/ /\ UNCHANGED lerna
          /\ Throw(p, call[p], "al_write")
    /\ UNCHANGED <<root, rootExists, modulesDir, moduleDirs, tsconfig, manifest, configDoc,
                   extRepos, memVars>>

-----------------------------------------------------------------------------
(* addExternalRepo(path) *)

\* await readJSON(packageJsonPath)
AddExternalRepoCall(p, path) ==
    /\ CanBegin(p)
    /\ LET c == NewCall(p, "addExternalRepo", [NoArg EXCEPT !.path = path])
           repo == extRepos[path]
       IN \/ /\ repo # None
             /\ Get(repo).manifest # None
             /\ Step(p, c, "aer_readPkg", "aer_readTs",
                     [NoLocal EXCEPT !.pkgName = Get(Get(repo).manifest).name], 0)
          \/ Throw(p, c, "aer_readPkg")
    /\ UNCHANGED <<root, diskVars, memVars>>

\* await readJSON(tsconfigPath); then the assignment to compilerOptions.paths
AerReadTs(p) ==
    /\ pc[p] = "aer_readTs"
    /\ \/ /\ tsconfig # None
          /\ Step(p, call[p], "aer_readTs", "aer_write",
                  [local[p] EXCEPT
                     !.ts = Some(MergePaths(Get(tsconfig), local[p].pkgName,
                                            call[p].arg.path))], 0)
       \/ Throw(p, call[p], "aer_readTs")
    /\ UNCHANGED <<root, diskVars, memVars>>

\* a variant of AerWrite that merges the two entries into the file as it is at
\* the time of the write
AerWriteMerging(p) ==
    /\ pc[p] = "aer_write"
    /\ \/ /\ tsconfig' = Some(MergePaths(Get(tsconfig), local[p].pkgName,
                                         call[p].arg.path))
          /\ Return(p, call[p], None, 0)
       \/ /\ UNCHANGED tsconfig
          /\ Throw(p, call[p], "aer_write")
    /\ UNCHANGED <<root, rootExists, modulesDir, moduleDirs, manifest, configDoc, lerna,
                   extRepos, memVars>>

\* await writeJSON(tsconfigPath, tsconfig)
AerWrite(p) ==
    /\ pc[p] = "aer_write"
    /\ \/ /\ tsconfig' = local[p].ts
          /\ Return(p, call[p], None, 0)
       \/ /\ UNCHANGED tsconfig
          /\ Throw(p, call[p], "aer_write")
    /\ UNCHANGED <<root, rootExists, modulesDir, moduleDirs, manifest, configDoc, lerna,
                   extRepos, memVars>>

-----------------------------------------------------------------------------
(* getExternalModuleNames(path) *)

\* a variant of ExternalModuleNames that returns the names in reverse listing order
ExternalModuleNamesReversed(n, dirs) ==
    [i \in 1..Len(dirs) |-> "@" \o n \o "/" \o dirs[Len(dirs) + 1 - i]]

\* moduleNames.map(x => `@${packageJson.name}/${x}`)
ExternalModuleNames(n, dirs) == [i \in 1..Len(dirs) |-> "@" \o n \o "/" \o dirs[i]]

\* await readJSON(packageJsonPath); await readdir(modulesPath); return the mapped
\* names.  Nothing writes under {root}/external once it is linked, so the two
\* reads are taken as one step.
GetExternalModuleNamesCall(p, path) ==
    /\ CanBegin(p)
    /\ LET c == NewCall(p, "getExternalModuleNames", [NoArg EXCEPT !.path = path])
           repo == extRepos[path]
       IN \/ /\ repo # None
             /\ Get(repo).manifest # None
             /\ Get(repo).modules # None
             /\ Return(p, c, Some(ExternalModuleNames(Get(Get(repo).manifest).name,
                                                      Get(Get(repo).modules))), 0)
          \/ Throw(p, c, "gemn_read")
    /\ UNCHANGED <<root, diskVars, memVars>>

-----------------------------------------------------------------------------
(* load() *)

\* getConfigPath(): the configuration document of the project
GetConfigPath == ConfigFilePath

\* this.configPath = getConfigPath(); this.pm = await getPMController(this.root),
\* the controller of the variant whose manifest is found on disk
LoadCall(p) ==
    /\ CanBegin(p)
    /\ configPath' = [configPath EXCEPT ![p] = Some(GetConfigPath)]
    /\ LET c == NewCall(p, "load", NoArg) IN
       \/ /\ manifest # None
          /\ pm' = [pm EXCEPT ![p] = PMCreate(Get(manifest).type)]
          /\ Step(p, c, "load_getPM", "load_pmLoad", NoLocal, 0)
       \/ /\ UNCHANGED pm
          /\ Throw(p, c, "load_getPM")
    /\ UNCHANGED <<root, diskVars, cmModules>>

\* await this.pm.load()
LoadPmLoad(p) ==
    /\ pc[p] = "load_pmLoad"
    /\ \/ /\ manifest # None
          /\ Return(p, call[p], None, 0)
       \/ Throw(p, call[p], "load_pmLoad")
    /\ UNCHANGED <<root, diskVars, memVars>>

-----------------------------------------------------------------------------
(* createModule(name) *)

\* a variant of CreateModuleCall without the checkModule guard
CreateModuleCallUnguarded(p, n) ==
    /\ CanBegin(p)
    /\ LET c == NewCall(p, "createModule", [NoArg EXCEPT !.name = n]) IN
       \/ /\ pm[p] # None
          /\ modulesDir
          /\ moduleDirs' = moduleDirs \cup {n}
          /\ cmModules' = [cmModules EXCEPT ![p] = CMAddModule(@, FullName(n))]
          /\ Step(p, c, "cm_moduleInit", "cm_save", NoLocal, 0)
       \/ /\ UNCHANGED <<moduleDirs, cmModules>>
          /\ Throw(p, c, "cm_moduleInit")
    /\ UNCHANGED <<root, rootExists, modulesDir, tsconfig, manifest, configDoc, lerna,
                   extRepos, pm, configPath>>

\* a variant of CreateModuleCall that declares the module before module.init()
CreateModuleCallDeclaringFirst(p, n) ==
    /\ CanBegin(p)
    /\ LET c == NewCall(p, "createModule", [NoArg EXCEPT !.name = n]) IN
       \/ /\ pm[p] # None
          /\ modulesDir
          /\ moduleDirs' = moduleDirs \cup {n}
          /\ IF ~CMCheckModule(cmModules[p], FullName(n))
             THEN /\ cmModules' = [cmModules EXCEPT ![p] = CMAddModule(@, FullName(n))]
                  /\ Step(p, c, "cm_moduleInit", "cm_save", NoLocal, 0)
             ELSE /\ UNCHANGED cmModules
                  /\ Return(p, c, Some(Module(n, Get(pm[p]).type)), 0)
       \/ /\ UNCHANGED moduleDirs
          /\ cmModules' = [cmModules EXCEPT ![p] = CMAddModule(@, FullName(n))]
          /\ Throw(p, c, "cm_moduleInit")
    /\ UNCHANGED <<root, rootExists, modulesDir, tsconfig, manifest, configDoc, lerna,
                   extRepos, pm, configPath>>

\* const module = this.getModule(name), which throws when this.pm is undefined;
\* await module.init(); then the checkModule guard and addModule
CreateModuleCall(p, n) ==
    /\ CanBegin(p)
    /\ LET c == NewCall(p, "createModule", [NoArg EXCEPT !.name = n]) IN
       \/ /\ pm[p] # None
          /\ modulesDir
          /\ moduleDirs' = moduleDirs \cup {n}
          /\ IF ~CMCheckModule(cmModules[p], FullName(n))
             THEN /\ cmModules' = [cmModules EXCEPT ![p] = CMAddModule(@, FullName(n))]
                  /\ Step(p, c, "cm_moduleInit", "cm_save", NoLocal, 0)
             ELSE /\ UNCHANGED cmModules
                  /\ Return(p, c, Some(Module(n, Get(pm[p]).type)), 0)
       \/ /\ UNCHANGED <<moduleDirs, cmModules>>
          /\ Throw(p, c, "cm_moduleInit")
    /\ UNCHANGED <<root, rootExists, modulesDir, tsconfig, manifest, configDoc, lerna,
                   extRepos, pm, configPath>>

\* await this.saveConfig(); return module
CmSave(p) ==
    /\ pc[p] = "cm_save"
    /\ \/ /\ CanSaveConfig(p)
          /\ configDoc' = SavedConfig(cmModules[p])
          /\ Return(p, call[p], Some(Module(call[p].arg.name, Get(pm[p]).type)), 1)
       \/ /\ UNCHANGED configDoc
          /\ Throw(p, call[p], "cm_save")
    /\ UNCHANGED <<root, rootExists, modulesDir, moduleDirs, tsconfig, manifest, lerna,
                   extRepos, memVars>>

-----------------------------------------------------------------------------
(* install(modules, dev) *)

\* a variant of InstallCall that declares the modules it installed
InstallCallDeclaring(p, mods, dev) ==
    /\ CanBegin(p)
    /\ LET c == NewCall(p, "install", [NoArg EXCEPT !.mods = mods, !.dev = dev]) IN
       \/ /\ pm[p] # None
          /\ PMCanInstall
          /\ PMInstall(mods, dev)
          /\ cmModules' = [cmModules EXCEPT ![p] = @ \cup Range(mods)]
          /\ Return(p, c, None, 0)
       \/ /\ UNCHANGED <<manifest, cmModules>>
          /\ Throw(p, c, "inst_install")
    /\ UNCHANGED <<root, rootExists, modulesDir, moduleDirs, tsconfig, configDoc, lerna,
                   extRepos, pm, configPath>>

\* await this.pm.install(modules, dev), which throws when this.pm is undefined
InstallCall(p, mods, dev) ==
    /\ CanBegin(p)
    /\ LET c == NewCall(p, "install", [NoArg EXCEPT !.mods = mods, !.dev = dev]) IN
       \/ /\ pm[p] # None
          /\ PMCanInstall
          /\ PMInstall(mods, dev)
          /\ Return(p, c, None, 0)
       \/ /\ UNCHANGED manifest
          /\ Throw(p, c, "inst_install")
    /\ UNCHANGED <<root, rootExists, modulesDir, moduleDirs, tsconfig, configDoc, lerna,
                   extRepos, memVars>>

-----------------------------------------------------------------------------
(* addLocalModules(modules) *)

\* for (const module of modules) this.configManager.addModule(module)
RECURSIVE CMAddAll(_, _)
CMAddAll(mods, batch) ==
    IF batch = <<>> THEN mods
    ELSE CMAddAll(CMAddModule(mods, Head(batch)), Tail(batch))

\* a variant of AddLocalModulesCall that does not write when the list is empty
AddLocalModulesCallSkippingEmpty(p, mods) ==
    /\ CanBegin(p)
    /\ cmModules' = [cmModules EXCEPT ![p] = CMAddAll(@, mods)]
    /\ LET c == NewCall(p, "addLocalModules", [NoArg EXCEPT !.mods = mods]) IN
       \/ /\ mods = <<>>
          /\ UNCHANGED configDoc
          /\ Return(p, c, None, 0)
       \/ /\ mods # <<>>
          /\ CanSaveConfig(p)
          /\ configDoc' = SavedConfig(CMAddAll(cmModules[p], mods))
          /\ Return(p, c, None, 1)
       \/ /\ mods # <<>>
          /\ UNCHANGED configDoc
          /\ Throw(p, c, "alm_save")
    /\ UNCHANGED <<root, rootExists, modulesDir, moduleDirs, tsconfig, manifest, lerna,
                   extRepos, pm, configPath>>

\* the loop over modules; await this.saveConfig()
AddLocalModulesCall(p, mods) ==
    /\ CanBegin(p)
    /\ cmModules' = [cmModules EXCEPT ![p] = CMAddAll(@, mods)]
    /\ LET c == NewCall(p, "addLocalModules", [NoArg EXCEPT !.mods = mods]) IN
       \/ /\ CanSaveConfig(p)
          /\ configDoc' = SavedConfig(CMAddAll(cmModules[p], mods))
          /\ Return(p, c, None, 1)
       \/ /\ UNCHANGED configDoc
          /\ Throw(p, c, "alm_save")
    /\ UNCHANGED <<root, rootExists, modulesDir, moduleDirs, tsconfig, manifest, lerna,
                   extRepos, pm, configPath>>

-----------------------------------------------------------------------------
(* addModules(modules, dev) *)

\* a variant of AddModulesCall that goes on to addLocalModules when install rejects
AddModulesCallIgnoringFailure(p, mods, dev) ==
    /\ CanBegin(p)
    /\ pm[p] # None
    /\ \/ PMCanInstall /\ PMInstall(mods, dev)
       \/ UNCHANGED manifest
    /\ cmModules' = [cmModules EXCEPT ![p] = CMAddAll(@, mods)]
    /\ Step(p, NewCall(p, "addModules", [NoArg EXCEPT !.mods = mods, !.dev = dev]),
            "am_install", "am_save", NoLocal, 0)
    /\ UNCHANGED <<root, rootExists, modulesDir, moduleDirs, tsconfig, configDoc, lerna,
                   extRepos, pm, configPath>>

\* await this.install(modules, dev); then the loop of addLocalModules
AddModulesCall(p, mods, dev) ==
    /\ CanBegin(p)
    /\ LET c == NewCall(p, "addModules", [NoArg EXCEPT !.mods = mods, !.dev = dev]) IN
       \/ /\ pm[p] # None
          /\ PMCanInstall
          /\ PMInstall(mods, dev)
          /\ cmModules' = [cmModules EXCEPT ![p] = CMAddAll(@, mods)]
          /\ Step(p, c, "am_install", "am_save", NoLocal, 0)
       \/ /\ UNCHANGED <<manifest, cmModules>>
          /\ Throw(p, c, "am_install")
    /\ UNCHANGED <<root, rootExists, modulesDir, moduleDirs, tsconfig, configDoc, lerna,
                   extRepos, pm, configPath>>

\* await this.saveConfig() (in addLocalModules)
AmSave(p) ==
    /\ pc[p] = "am_save"
    /\ \/ /\ CanSaveConfig(p)
          /\ configDoc' = SavedConfig(cmModules[p])
          /\ Return(p, call[p], None, 1)
       \/ /\ UNCHANGED configDoc
          /\ Throw(p, call[p], "am_save")
    /\ UNCHANGED <<root, rootExists, modulesDir, moduleDirs, tsconfig, manifest, lerna,
                   extRepos, memVars>>

-----------------------------------------------------------------------------
(* Specifications *)

\* init, load, addExternalRepo, createModule, addLocalModules
CoreCalls(p) ==
    \/ \E t \in PMTypes : SetPackageManager(p, t)
    \/ InitCall(p)
    \/ LoadCall(p)
    \/ \E path \in ExtPaths : AddExternalRepoCall(p, path)
    \/ \E n \in LocalNames : CreateModuleCall(p, n)
    \/ \E mods \in Batches : AddLocalModulesCall(p, mods)

CoreSteps(p) ==
    \/ InitEnsureDir(p) \/ InitMkdir(p) \/ InitWriteTsconfig(p)
    \/ InitPmSave(p) \/ InitSaveConfig(p)
    \/ LoadPmLoad(p)
    \/ AerReadTs(p) \/ AerWrite(p)
    \/ CmSave(p)

\* addLerna, getExternalModuleNames, install, addModules
OtherCalls(p) ==
    \/ AddLernaCall(p)
    \/ \E path \in ExtPaths : GetExternalModuleNamesCall(p, path)
    \/ \E mods \in Batches, dev \in BOOLEAN : InstallCall(p, mods, dev)
    \/ \E mods \in Batches, dev \in BOOLEAN : AddModulesCall(p, mods, dev)

OtherSteps(p) == AlWrite(p) \/ AmSave(p)

\* one orchestrator at a time works on the project, each call awaited before the
\* next; a later process starts from a newly constructed orchestrator
Next ==
    \/ GitClone
    \/ Restart("o1")
    \/ Await("o1")
    \/ CoreCalls("o1") \/ CoreSteps("o1")
    \/ OtherCalls("o1") \/ OtherSteps("o1")

Spec == Init /\ [][Next]_vars

\* two orchestrators work on the project at once, their steps interleaving: the
\* first creates the project, links the repository at "x" and creates module
\* "a"; the second loads the project, links the repositories at "y" and "z"
\* and declares the installed module "@lib/m"
FirstCalls(p) ==
    \/ SetPackageManager(p, "npm")
    \/ InitCall(p)
    \/ AddExternalRepoCall(p, "x")
    \/ \E n \in LocalNames : CreateModuleCall(p, n)

SecondCalls(p) ==
    \/ LoadCall(p)
    \/ \E path \in {"y", "z"} : AddExternalRepoCall(p, path)
    \/ AddLocalModulesCall(p, <<"@lib/m">>)

NextConc ==
    \/ GitClone
    \/ FirstCalls("o1")
    \/ SecondCalls("o2")
    \/ \E p \in Procs : Await(p) \/ CoreSteps(p)

SpecConc == Init /\ [][NextConc]_vars

\* The repository that the git collaborator linked at external/x of the project
\* /tmp/proj, taken as a project of its own: it was initialised under the name
\* "lib" with the modules "n" and "m" and cloned into the directory "x".  An
\* orchestrator is constructed on it.
LinkedRoot == <<"tmp", "proj", "external", "x">>

InitLinked ==
    /\ root = LinkedRoot
    /\ rootExists = TRUE
    /\ modulesDir = TRUE
    /\ moduleDirs = {"n", "m"}
    /\ tsconfig = Some([InitTsconfig EXCEPT !.compilerOptions.paths =
                           TwoKeys(SrcKey("lib"), <<"*/src">>,
                                   TypingsKey("lib"), <<"*/typings">>)])
    /\ manifest \in {Some(PMSaved(Get(PMCreate(t)), "lib", TRUE)) : t \in PMTypes}
    /\ configDoc = SavedConfig({"@lib/n", "@lib/m"})
    /\ lerna = None
    /\ extRepos = [x \in ExtPaths |-> None]
    /\ cmModules = [p \in Procs |-> {}]
    /\ pm = [p \in Procs |-> None]
    /\ configPath = [p \in Procs |-> None]
    /\ pc = [p \in Procs |-> "idle"]
    /\ call = [p \in Procs |-> NoCall]
    /\ local = [p \in Procs |-> NoLocal]
    /\ last = [p \in Procs |-> NoLast]

\* one orchestrator at a time works on the linked repository
NextLinked ==
    \/ Restart("o1")
    \/ Await("o1")
    \/ \E t \in PMTypes : SetPackageManager("o1", t)
    \/ LoadCall("o1") \/ LoadPmLoad("o1")
    \/ InitCall("o1") \/ InitMkdir("o1")
    \/ \E n \in LocalNames : CreateModuleCall("o1", n)
    \/ CmSave("o1")
    \/ \E mods \in Batches : AddLocalModulesCall("o1", mods)
    \/ AddLernaCall("o1") \/ AlWrite("o1")

SpecLinked == InitLinked /\ [][NextLinked]_vars

-----------------------------------------------------------------------------
(* Vocabulary of the properties *)

\* the path mappings of a tsconfig.json that exists
Paths(ts) == Get(ts).compilerOptions.paths

\* this step is a step of a call on orchestrator p
CallStep(p) == pc[p] # "settled" /\ pc'[p] # "idle" /\ pc'[p] # pc[p]

\* the operation whose call takes this step
OpOf(p) ==
    IF pc[p] # "idle" THEN call[p].op
    ELSE IF pc'[p] = "settled" THEN last'[p].op ELSE call'[p].op

\* the call on p ends with this step, rejected
Rejected(p) == CallStep(p) /\ pc'[p] = "settled" /\ last'[p].status = "failed"

\* the call on p ends with this step, returning
Returned(p) == CallStep(p) /\ pc'[p] = "settled" /\ last'[p].status = "ok"

\* the awaited steps of the call on p that have resolved
StepsDone(p) == Range(call[p].steps)

-----------------------------------------------------------------------------
(* addExternalRepo keeps the path mappings it does not write *)

\* C1: a step of an addExternalRepo call changes tsconfig.json only by its final
\* write, and that write keeps every path-mapping key other than the two keys of
\* the linked repository's scope, each with the patterns it had.
C1_MergeKeepsOtherKeys ==
    [][\A p \in Procs :
         CallStep(p) /\ OpOf(p) = "addExternalRepo" =>
            IF pc[p] = "aer_write" /\ tsconfig' # tsconfig
            THEN LET scope == Get(Get(extRepos[call[p].arg.path]).manifest).name IN
                 /\ tsconfig' # None
                 /\ \A k \in DOMAIN Paths(tsconfig) \ ScopeKeys(scope) :
                       /\ k \in DOMAIN Paths(tsconfig')
                       /\ Paths(tsconfig')[k] = Paths(tsconfig)[k]
            ELSE tsconfig' = tsconfig]_vars

\* addExternalRepo("x") has returned and the file holds, next to the keys of "@lib",
\* the keys of "@proj" with the patterns an earlier addExternalRepo("z") gave them
C1_Witness ==
    \E p \in Procs :
       /\ last[p].op = "addExternalRepo" /\ last[p].status = "ok" /\ last[p].path = "x"
       /\ tsconfig # None
       /\ DOMAIN Paths(tsconfig) = ScopeKeys("lib") \cup ScopeKeys("proj")
       /\ Paths(tsconfig)["@proj/*"] = <<"../external/z/modules/*/src">>
       /\ Paths(tsconfig)["@lib/*/typings"] = <<"../external/x/modules/*/typings">>

-----------------------------------------------------------------------------
(* createModule is idempotent on the declared set *)

\* C2: when createModule(name) returns after a createModule of the same name
\* returned on the same orchestrator, the full name is declared (once: the declared
\* modules are a set), the second call wrote no configuration document, the two
\* calls wrote it at most once, and every createModule that returns returns the
\* Module of its name, bound to the package manager of the orchestrator.
C2_CreateModuleTwice ==
    \A p \in Procs :
       last[p].op = "createModule" /\ last[p].status = "ok" =>
          /\ last[p].ret # None
          /\ Get(last[p].ret).name = last[p].name
          /\ Get(last[p].ret).fullName = "@" \o Basename(root) \o "/" \o last[p].name
          /\ pc[p] = "settled" => pm[p] # None /\ Get(last[p].ret).type = Get(pm[p]).type
          /\ last[p].again =>
                /\ Cardinality({m \in cmModules[p] : m = FullName(last[p].name)}) = 1
                /\ last[p].cfgWrites = 0
                /\ last[p].prevWrites + last[p].cfgWrites <= 1

\* the second createModule("a") has returned, the first having written the document
C2_Witness ==
    \E p \in Procs :
       /\ last[p].op = "createModule" /\ last[p].status = "ok" /\ last[p].again
       /\ last[p].prevWrites = 1
       /\ pc[p] = "settled"
       /\ configDoc = Some([imports |-> {"import @proj/a"}])

-----------------------------------------------------------------------------
(* addModules declares only what was installed *)

\* C3: an addModules call whose install rejects is rejected with the declared
\* modules and the configuration document as they were; a step of addModules
\* that declares a module or writes the document finds every module of the
\* batch recorded in the manifest by the install that resolved.
C3_InstallBeforeDeclare ==
    [][\A p \in Procs :
         CallStep(p) /\ OpOf(p) = "addModules" =>
            /\ Rejected(p) /\ last'[p].failedAt = "am_install" =>
                  /\ cmModules' = cmModules
                  /\ configDoc' = configDoc
                  /\ pc[p] = "idle"
            /\ cmModules'[p] # cmModules[p] \/ configDoc' # configDoc =>
                  LET c == IF pc[p] = "idle" THEN call'[p] ELSE call[p] IN
                  /\ "am_install" \in Range(c.steps)
                  /\ manifest' # None
                  /\ Range(c.arg.mods) \subseteq
                        IF c.arg.dev THEN Get(manifest').devDependencies
                        ELSE Get(manifest').dependencies]_vars

\* addModules was rejected by the install of a ready project that has a
\* configuration document, and the module is not declared
C3_Witness ==
    \E p \in Procs :
       /\ last[p].op = "addModules" /\ last[p].status = "failed"
       /\ last[p].failedAt = "am_install"
       /\ pm[p] # None /\ manifest # None /\ configDoc # None
       /\ cmModules[p] = {}
       /\ configDoc = Some([imports |-> {}])

-----------------------------------------------------------------------------
(* init writes the configuration document last *)

\* C4: a step of init that writes the configuration document is its last step,
\* taken after the tsconfig write and the manifest save of the same call have
\* resolved, with both files on disk; and no step removes tsconfig.json or the
\* manifest, so the document init wrote never exists without them.
C4_ConfigWrittenLast ==
    [][/\ \A p \in Procs :
             CallStep(p) /\ OpOf(p) = "init" /\ configDoc' # configDoc =>
                /\ pc[p] = "init_saveConfig"
                /\ {"init_writeTsconfig", "init_pmSave"} \subseteq StepsDone(p)
                /\ tsconfig # None /\ tsconfig' # None
                /\ manifest # None /\ manifest' # None
                /\ Returned(p)
       /\ tsconfig # None => tsconfig' # None
       /\ manifest # None => manifest' # None]_vars

\* init has returned: the three files exist
C4_Witness ==
    \E p \in Procs :
       /\ last[p].op = "init" /\ last[p].status = "ok"
       /\ configDoc # None /\ tsconfig # None /\ manifest # None

-----------------------------------------------------------------------------
(* What init leaves on disk *)

\* C5: when init returns, the modules directory exists, the manifest declares the
\* base name of the root and is private, the configuration document is the
\* serialization of the empty declared set, and the path mappings of tsconfig.json
\* are exactly the two keys of the project's own scope with the patterns "*/src"
\* and "*/typings".
C5_InitPostcondition ==
    \A p \in Procs :
       pc[p] = "settled" /\ last[p].op = "init" /\ last[p].status = "ok" =>
          /\ rootExists /\ modulesDir
          /\ manifest # None
          /\ Get(manifest).name = root[Len(root)]
          /\ Get(manifest).private = TRUE
          /\ configDoc = Some([imports |-> {}])
          /\ tsconfig # None
          /\ DOMAIN Paths(tsconfig) = {"@" \o root[Len(root)] \o "/*",
                                       "@" \o root[Len(root)] \o "/*/typings"}
          /\ Cardinality(DOMAIN Paths(tsconfig)) = 2
          /\ Paths(tsconfig)["@" \o root[Len(root)] \o "/*"] = <<"*/src">>
          /\ Paths(tsconfig)["@" \o root[Len(root)] \o "/*/typings"] = <<"*/typings">>
          /\ Get(tsconfig).compilerOptions.baseUrl = "modules"

\* init has returned on a root that holds nothing but the new project
C5_Witness ==
    \E p \in Procs :
       /\ pc[p] = "settled" /\ last[p].op = "init" /\ last[p].status = "ok"
       /\ \A x \in ExtPaths : extRepos[x] = None
       /\ Get(manifest).name = "proj"
       /\ DOMAIN Paths(tsconfig) = {"@proj/*", "@proj/*/typings"}

-----------------------------------------------------------------------------
(* addLerna writes lerna.json only after the install *)

\* C6: lerna.json is written only by the last step of an addLerna call whose
\* install of "lerna" as a development dependency has resolved, and an addLerna
\* call that is rejected at the install leaves lerna.json as it was.
C6_LernaAfterInstall ==
    [][/\ lerna' # lerna =>
             \E p \in Procs :
                /\ CallStep(p) /\ OpOf(p) = "addLerna" /\ pc[p] = "al_write"
                /\ "al_install" \in StepsDone(p)
                /\ manifest # None
                /\ "lerna" \in Get(manifest).devDependencies
       /\ \A p \in Procs :
             CallStep(p) /\ OpOf(p) = "addLerna" /\ pc[p] = "idle" =>
                /\ lerna' = lerna
                /\ Rejected(p) => last'[p].failedAt = "al_install"
                /\ ~Rejected(p) => pc'[p] = "al_write" /\ manifest' # None]_vars

\* addLerna was rejected by the install on an orchestrator that has a package
\* manager, and there is no lerna.json
C6_Witness ==
    \E p \in Procs :
       /\ last[p].op = "addLerna" /\ last[p].status = "failed"
       /\ last[p].failedAt = "al_install"
       /\ pm[p] # None
       /\ lerna = None

-----------------------------------------------------------------------------
(* The project's name and the manifest *)

\* C7: after init or load has returned, the project's name, the base name of the
\* root, is the name the manifest declares.
C7_NameIsManifestName ==
    \A p \in Procs :
       last[p].status = "ok" /\ last[p].op \in {"init", "load"} =>
          /\ manifest # None
          /\ Get(manifest).name = Name

-----------------------------------------------------------------------------
(* The path mappings only grow *)

\* C8: no step of any operation, resolved or rejected, removes tsconfig.json or
\* a key of its path mappings.
C8_PathKeysNeverShrink ==
    [][tsconfig # None =>
          /\ tsconfig' # None
          /\ DOMAIN Paths(tsconfig) \subseteq DOMAIN Paths(tsconfig')]_vars

\* an init is rejected at its first directory step while the file holds the keys
\* of the project's scope and of a linked repository
C8_Witness ==
    \E p \in Procs :
       /\ last[p].op = "init" /\ last[p].status = "failed"
       /\ last[p].failedAt = "init_mkdir"
       /\ tsconfig # None
       /\ DOMAIN Paths(tsconfig) = {"@proj/*", "@proj/*/typings", "@lib/*", "@lib/*/typings"}

-----------------------------------------------------------------------------
(* Two orchestrators: the last write wins *)

\* the entries addExternalRepo(path) writes are not in the file
EntriesMissing(path) ==
    LET scope == Get(Get(extRepos[path]).manifest).name
        entries == ExternalPaths(scope, path)
    IN \E k \in DOMAIN entries :
          k \notin DOMAIN Paths(tsconfig) \/ Paths(tsconfig)[k] # entries[k]

\* C9: the write of addExternalRepo stores what the call merged when it read the
\* file, so every key written to the file since that read is dropped; and a write
\* of the configuration document stores the modules declared on the writing
\* orchestrator and no others.  The lost update is the state C9_LostUpdate.
C9_LastWriteWins ==
    [][\A p \in Procs :
         /\ CallStep(p) /\ pc[p] = "aer_write" /\ Returned(p) =>
               /\ tsconfig' # None
               /\ \A k \in DOMAIN Paths(tsconfig) :
                     k \notin DOMAIN Paths(local[p].ts) => k \notin DOMAIN Paths(tsconfig')
         /\ CallStep(p) /\ configDoc' # configDoc =>
               configDoc' = Some([imports |-> {"import " \o m : m \in cmModules'[p]}])]_vars

\* two addExternalRepo calls for repositories of different scopes have both
\* returned and the entries of one of them are not in the file
C9_LostUpdate ==
    \E p, q \in Procs :
       /\ p # q
       /\ last[p].op = "addExternalRepo" /\ last[p].status = "ok"
       /\ last[q].op = "addExternalRepo" /\ last[q].status = "ok"
       /\ tsconfig # None
       /\ Get(Get(extRepos[last[p].path]).manifest).name
             # Get(Get(extRepos[last[q].path]).manifest).name
       /\ EntriesMissing(last[p].path)

\* createModule("a") has returned on one orchestrator having written the
\* document, addLocalModules has returned on the other, and "@proj/a" is not in
\* the document
C9_LostConfigUpdate ==
    \E p, q \in Procs :
       /\ p # q
       /\ last[p].op = "createModule" /\ last[p].status = "ok" /\ last[p].cfgWrites = 1
       /\ last[q].op = "addLocalModules" /\ last[q].status = "ok"
       /\ configDoc = Some([imports |-> {"import @lib/m"}])

-----------------------------------------------------------------------------
(* A rejected step ends the operation *)

\* a step is awaited only when the steps before it have resolved
StepsInOrder ==
    \A p \in Procs :
       /\ pc[p] \in {"init_mkdir", "init_writeTsconfig", "init_pmSave", "init_saveConfig"}
             => rootExists
       /\ pc[p] \in {"init_writeTsconfig", "init_pmSave", "init_saveConfig"} => modulesDir
       /\ pc[p] \in {"init_pmSave", "init_saveConfig"} => tsconfig # None /\ pm[p] # None
       /\ pc[p] = "init_saveConfig" => manifest # None /\ configPath[p] # None
       /\ pc[p] = "al_write" => manifest # None /\ "lerna" \in Get(manifest).devDependencies
       /\ pc[p] = "aer_write" => local[p].ts # None
       /\ pc[p] = "load_pmLoad" => pm[p] # None
       /\ pc[p] = "cm_save" => call[p].arg.name \in moduleDirs
       /\ pc[p] = "am_save" => manifest # None

\* C10: a step is awaited only when the steps before it have resolved; the step
\* that rejects ends the call with the rejection, no file changed by that step
\* (the tsconfig write after which pm.init throws has been written); init
\* rejected at the manifest save leaves the modules directory and tsconfig.json
\* and no manifest, and has not written the configuration document.
C10_RejectionStops ==
    /\ []StepsInOrder
    /\ [][\A p \in Procs :
            Rejected(p) =>
               /\ call'[p] = NoCall
               /\ last'[p].ret = None
               /\ IF last'[p].failedAt = "init_pmInit"
                  THEN /\ tsconfig' = Some(InitTsconfig)
                       /\ <<rootExists, modulesDir, moduleDirs, manifest, configDoc, lerna,
                            extRepos>>' =
                          <<rootExists, modulesDir, moduleDirs, manifest, configDoc, lerna,
                            extRepos>>
                  ELSE diskVars' = diskVars
               /\ last'[p].failedAt = "init_pmSave" =>
                     /\ modulesDir' /\ tsconfig' = Some(InitTsconfig)
                     /\ manifest' = None
                     /\ configDoc' = configDoc]_vars

\* init was rejected at the manifest save: the modules directory and
\* tsconfig.json are there, the manifest and the configuration document are not
C10_Witness ==
    \E p \in Procs :
       /\ last[p].op = "init" /\ last[p].status = "failed"
       /\ last[p].failedAt = "init_pmSave"
       /\ modulesDir /\ tsconfig # None
       /\ manifest = None /\ configDoc = None

-----------------------------------------------------------------------------
(* The configuration document and the declared modules *)

\* C11: when init, createModule, addLocalModules or addModules has returned, the
\* configuration document on disk is the serialization of the modules declared
\* on the orchestrator.
C11_DocIsDeclaredSet ==
    \A p \in Procs :
       /\ pc[p] = "settled"
       /\ last[p].status = "ok"
       /\ last[p].op \in {"init", "createModule", "addLocalModules", "addModules"}
       => configDoc = Some([imports |-> {"import " \o m : m \in cmModules[p]}])

\* C12: when load has returned and the project has a configuration document, the
\* modules declared on the orchestrator are those the document declares.
C12_LoadRestoresDeclaredSet ==
    \A p \in Procs :
       /\ pc[p] = "settled"
       /\ last[p].status = "ok"
       /\ last[p].op = "load"
       /\ configDoc # None
       => Get(configDoc).imports = {"import " \o m : m \in cmModules[p]}

-----------------------------------------------------------------------------
(* addLocalModules *)

\* C13: an addLocalModules call is one awaited step; it declares every module of
\* its list, a module already declared or repeated in the list being declared
\* once; when it returns it has written the configuration document once, with all
\* of them, whatever the length of the list; when it is rejected it has not
\* written.
C13_AddLocalModules ==
    [][\A p \in Procs :
         CallStep(p) /\ OpOf(p) = "addLocalModules" =>
            LET mods == last'[p].mods
                declared == cmModules[p] \cup {mods[i] : i \in 1..Len(mods)}
            IN /\ pc[p] = "idle" /\ pc'[p] = "settled"
               /\ cmModules'[p] = declared
               /\ Returned(p) =>
                     /\ configDoc' = Some([imports |-> {"import " \o m : m \in declared}])
                     /\ last'[p].cfgWrites = 1
               /\ Rejected(p) =>
                     /\ configDoc' = configDoc
                     /\ last'[p].cfgWrites = 0
                     /\ last'[p].failedAt = "alm_save"]_vars

\* addLocalModules of a list that repeats a module has returned: the module is
\* declared once, next to the module declared before
C13_Witness ==
    \E p \in Procs :
       /\ last[p].op = "addLocalModules" /\ last[p].status = "ok"
       /\ last[p].mods = <<"@lib/m", "@lib/m">>
       /\ cmModules[p] = {"@proj/a", "@lib/m"}
       /\ configDoc = Some([imports |-> {"import @proj/a", "import @lib/m"}])

-----------------------------------------------------------------------------
(* getExternalModuleNames *)

\* C14 as stated: the names getExternalModuleNames(path) returned are, in listing
\* order, the declared package name of the repository, "/" and the directory name.
C14_NamesWithoutAt ==
    \A p \in Procs :
       /\ pc[p] = "settled"
       /\ last[p].op = "getExternalModuleNames"
       /\ last[p].status = "ok"
       => LET repo == Get(extRepos[last[p].path])
              dirs == Get(repo.modules)
          IN /\ last[p].ret # None
             /\ Len(Get(last[p].ret)) = Len(dirs)
             /\ \A i \in 1..Len(dirs) :
                   Get(last[p].ret)[i] = Get(repo.manifest).name \o "/" \o dirs[i]

\* C14: getExternalModuleNames(path) changes no file and no field of the
\* orchestrator; when it returns, it returns one name per entry of the listing of
\* the repository's modules directory, in listing order, each "@", the declared
\* package name of the repository, "/" and the directory name.
C14_ExternalModuleNames ==
    [][\A p \in Procs :
         CallStep(p) /\ OpOf(p) = "getExternalModuleNames" =>
            /\ diskVars' = diskVars
            /\ memVars' = memVars
            /\ Returned(p) =>
                  LET repo == Get(extRepos[last'[p].path])
                      dirs == Get(repo.modules)
                  IN /\ last'[p].ret # None
                     /\ Len(Get(last'[p].ret)) = Len(dirs)
                     /\ \A i \in 1..Len(dirs) :
                           Get(last'[p].ret)[i] =
                              "@" \o Get(repo.manifest).name \o "/" \o dirs[i]]_vars

\* getExternalModuleNames("x") has returned the two names of the repository "lib"
\* in the order of its listing, "n" before "m"
C14_Witness ==
    \E p \in Procs :
       /\ last[p].op = "getExternalModuleNames" /\ last[p].status = "ok"
       /\ last[p].path = "x"
       /\ last[p].ret = Some(<<"@lib/n", "@lib/m">>)

-----------------------------------------------------------------------------
(* addLerna: the shape of lerna.json *)

\* C15: when addLerna returns it has written a lerna.json given by the package
\* manager of the orchestrator alone: for yarn, version "0.0.0", npmClient "yarn"
\* and useWorkspaces true; for npm, version "0.0.0" and npmClient "npm" and no
\* useWorkspaces field.
C15_LernaShape ==
    [][\A p \in Procs :
         Returned(p) /\ OpOf(p) = "addLerna" =>
            /\ pm[p] # None
            /\ lerna' # None
            /\ Get(lerna').version = "0.0.0"
            /\ Get(pm[p]).type = "yarn" =>
                  Get(lerna') = [version |-> "0.0.0", npmClient |-> "yarn",
                                 useWorkspaces |-> TRUE]
            /\ Get(pm[p]).type = "npm" =>
                  /\ Get(lerna') = [version |-> "0.0.0", npmClient |-> "npm"]
                  /\ "useWorkspaces" \notin DOMAIN Get(lerna')]_vars

\* addLerna has returned on an orchestrator set to npm, in a project whose
\* manifest was created with yarn: lerna.json is the one for npm
C15_Witness ==
    \E p \in Procs :
       /\ last[p].op = "addLerna" /\ last[p].status = "ok"
       /\ pm[p] = Some([type |-> "npm"])
       /\ manifest # None /\ Get(manifest).type = "yarn"
       /\ lerna = Some([version |-> "0.0.0", npmClient |-> "npm"])

-----------------------------------------------------------------------------
(* install *)

\* C16: a step of an install call, resolved or rejected, leaves the declared
\* modules, the configuration document and tsconfig.json as they were; it
\* changes at most the manifest.
C16_InstallFrame ==
    [][\A p \in Procs :
         CallStep(p) /\ OpOf(p) = "install" =>
            /\ cmModules' = cmModules
            /\ configDoc' = configDoc
            /\ tsconfig' = tsconfig
            /\ <<rootExists, modulesDir, moduleDirs, lerna, extRepos, pm, configPath>>' =
               <<rootExists, modulesDir, moduleDirs, lerna, extRepos, pm, configPath>>
            /\ Rejected(p) => manifest' = manifest]_vars

\* install has returned, the manifest records the module, and the module is not
\* declared: neither on the orchestrator nor in the configuration document
C16_Witness ==
    \E p \in Procs :
       /\ last[p].op = "install" /\ last[p].status = "ok"
       /\ manifest # None /\ "@lib/m" \in Get(manifest).dependencies
       /\ cmModules[p] = {}
       /\ configDoc = Some([imports |-> {}])
       /\ tsconfig # None

-----------------------------------------------------------------------------
(* addExternalRepo on a key collision *)

\* C17: when addExternalRepo(path) returns, the two keys of the repository's
\* scope map to the patterns of this path only, whatever they mapped to before
\* (the project's own patterns, or those of a repository of the same name at
\* another path); and when they already mapped to the patterns of this path, the
\* file is as it was.
C17_LastWriterWins ==
    [][\A p \in Procs :
         Returned(p) /\ OpOf(p) = "addExternalRepo" =>
            LET path == call[p].arg.path
                scope == Get(Get(extRepos[path]).manifest).name
                src == "@" \o scope \o "/*"
                typings == "@" \o scope \o "/*/typings"
                srcPatterns == <<"../external/" \o path \o "/modules/*/src">>
                typingsPatterns == <<"../external/" \o path \o "/modules/*/typings">>
            IN /\ tsconfig # None /\ tsconfig' # None
               /\ {src, typings} \subseteq DOMAIN Paths(tsconfig')
               /\ Paths(tsconfig')[src] = srcPatterns
               /\ Paths(tsconfig')[typings] = typingsPatterns
               /\ ( /\ {src, typings} \subseteq DOMAIN Paths(tsconfig)
                    /\ Paths(tsconfig)[src] = srcPatterns
                    /\ Paths(tsconfig)[typings] = typingsPatterns )
                  => tsconfig' = tsconfig]_vars

\* addExternalRepo("z") has returned for the repository that declares the
\* project's own name: the two keys init wrote map to the patterns of "z" only
C17_Witness ==
    \E p \in Procs :
       /\ last[p].op = "addExternalRepo" /\ last[p].status = "ok" /\ last[p].path = "z"
       /\ tsconfig # None
       /\ DOMAIN Paths(tsconfig) = {"@proj/*", "@proj/*/typings"}
       /\ Paths(tsconfig)["@proj/*"] = <<"../external/z/modules/*/src">>
       /\ Paths(tsconfig)["@proj/*/typings"] = <<"../external/z/modules/*/typings">>

-----------------------------------------------------------------------------
(* createModule: initialization before declaration *)

\* C18: a createModule call rejected at the module's initialization leaves the
\* declared modules and the configuration document as they were, and a step of
\* createModule that declares a module finds the module's directory initialized.
C18_InitBeforeDeclare ==
    [][\A p \in Procs :
         CallStep(p) /\ OpOf(p) = "createModule" =>
            /\ Rejected(p) /\ last'[p].failedAt = "cm_moduleInit" =>
                  /\ pc[p] = "idle"
                  /\ cmModules' = cmModules
                  /\ configDoc' = configDoc
            /\ cmModules'[p] # cmModules[p] =>
                  /\ pc[p] = "idle" /\ pc'[p] = "cm_save"
                  /\ call'[p].arg.name \in moduleDirs'
                  /\ configDoc' = configDoc]_vars

\* createModule was rejected at the module's initialization on a ready project:
\* the module is not declared and the document declares nothing
C18_Witness ==
    \E p \in Procs :
       /\ last[p].op = "createModule" /\ last[p].status = "failed"
       /\ last[p].failedAt = "cm_moduleInit"
       /\ pm[p] # None /\ modulesDir /\ configPath[p] # None
       /\ cmModules[p] = {}
       /\ configDoc = Some([imports |-> {}])

-----------------------------------------------------------------------------
(* addExternalRepo changes the path mappings only *)

\* C19: a step of an addExternalRepo call changes no file but tsconfig.json and
\* no field of the orchestrator; only its final write changes tsconfig.json, and
\* that write keeps the include list and every compiler option but paths; a call
\* for a path that is not linked, or whose repository has no package.json, is
\* rejected at its first read with tsconfig.json as it was.
C19_AddExternalRepoFrame ==
    [][\A p \in Procs :
         CallStep(p) /\ OpOf(p) = "addExternalRepo" =>
            LET path == IF pc[p] # "idle" THEN call[p].arg.path
                        ELSE IF pc'[p] = "settled" THEN last'[p].path
                        ELSE call'[p].arg.path
            IN /\ <<rootExists, modulesDir, moduleDirs, manifest, configDoc, lerna,
                    extRepos>>' =
                  <<rootExists, modulesDir, moduleDirs, manifest, configDoc, lerna,
                    extRepos>>
               /\ memVars' = memVars
               /\ tsconfig' # tsconfig =>
                     /\ pc[p] = "aer_write"
                     /\ tsconfig # None /\ tsconfig' # None
                     /\ DOMAIN Get(tsconfig') = DOMAIN Get(tsconfig)
                     /\ Get(tsconfig').include = Get(tsconfig).include
                     /\ DOMAIN Get(tsconfig').compilerOptions =
                           DOMAIN Get(tsconfig).compilerOptions
                     /\ \A o \in DOMAIN Get(tsconfig).compilerOptions \ {"paths"} :
                           Get(tsconfig').compilerOptions[o] = Get(tsconfig).compilerOptions[o]
               /\ ( /\ pc[p] = "idle"
                    /\ \/ extRepos[path] = None
                       \/ Get(extRepos[path]).manifest = None )
                  => /\ Rejected(p)
                     /\ last'[p].failedAt = "aer_readPkg"
                     /\ tsconfig' = tsconfig]_vars

\* addExternalRepo("w"), for a repository without package.json, was rejected at
\* its first read; tsconfig.json holds the keys written before
C19_Witness ==
    \E p \in Procs :
       /\ last[p].op = "addExternalRepo" /\ last[p].status = "failed"
       /\ last[p].path = "w" /\ last[p].failedAt = "aer_readPkg"
       /\ extRepos["w"] # None
       /\ tsconfig # None
       /\ DOMAIN Paths(tsconfig) = {"@proj/*", "@proj/*/typings", "@lib/*", "@lib/*/typings"}
       /\ Get(tsconfig).include = <<"replikit.config.ts", "modules/**/*.ts">>

-----------------------------------------------------------------------------
(* init on a root that has a modules directory *)

\* C20: an init call resets the declared modules of its orchestrator when it
\* begins; on a root that has a modules directory it is rejected at the creation
\* of that directory, and none of its steps changes tsconfig.json, the manifest
\* or the configuration document.
C20_SecondInit ==
    [][\A p \in Procs :
         CallStep(p) /\ OpOf(p) = "init" =>
            /\ pc[p] = "idle" => cmModules'[p] = {}
            /\ pc[p] \in {"idle", "init_ensureDir"} =>
                  <<tsconfig, manifest, configDoc>>' = <<tsconfig, manifest, configDoc>>
            /\ pc[p] = "init_mkdir" /\ modulesDir =>
                  /\ Rejected(p)
                  /\ last'[p].failedAt = "init_mkdir"
                  /\ <<tsconfig, manifest, configDoc>>' = <<tsconfig, manifest, configDoc>>
                  /\ diskVars' = diskVars
                  /\ cmModules'[p] = {}]_vars

\* a second init was rejected at the modules directory of a project with a linked
\* repository and a declared module: the three files are there, the document
\* declares the module and the orchestrator declares none
C20_Witness ==
    \E p \in Procs :
       /\ last[p].op = "init" /\ last[p].status = "failed"
       /\ last[p].failedAt = "init_mkdir"
       /\ cmModules[p] = {}
       /\ configDoc = Some([imports |-> {"import @proj/a"}])
       /\ manifest # None
       /\ tsconfig # None
       /\ "@lib/*" \in DOMAIN Paths(tsconfig)

====
